---- MODULE Spec2Model ----
(***************************************************************************)
(* A model of the company scoring engine of the mining-analytics          *)
(* dashboard: calculateScores of src/lib/scoringUtils.ts.                  *)
(*                                                                         *)
(* JavaScript numbers are modelled exactly: raw metric values, range       *)
(* bounds and weights are integers, every quotient the code forms is kept  *)
(* as a reduced fraction [n, d], and NaN / null are separate values.       *)
(* IEEE-754 rounding error of the double arithmetic is therefore outside   *)
(* the model.                                                              *)
(***************************************************************************)
EXTENDS Integers, Sequences, FiniteSets, TLC

VARIABLES
    companies,        \* Company[]            argument of calculateScores
    weights,          \* Record<string, number>
    fullRanges,       \* MetricFullRanges
    metricConfigs,    \* Record<string, MetricConfig>
    currentUserTier,  \* ColumnTier (any string at run time)
    results,          \* CompanyScore[]       the value returned
    pc,               \* "ready" before the call, "done" after it
    calls             \* history: the arguments and the output of every call made

\* FilterProvider (contexts/filter-context.tsx)
VARIABLES
    filterSettings,   \* FilterSettings
    currentCurrency,  \* Currency
    metricFullRanges, \* MetricFullRanges
    displayData,      \* Company[]
    totalCount,       \* number
    rangeLoading,     \* boolean
    dataLoading,      \* boolean
    error,            \* string | null: << >> or <<message>>
    debounceTimer,    \* << >> or <<arguments>> of the pending debounced call
    inFlight,         \* the get_companies_paginated calls awaiting their response
    rangeRpc,         \* get_metrics_ranges: "pending", then "settled" or "failed"
    issued,           \* number of get_companies_paginated calls issued so far
    changes,          \* number of changes of filter settings or currency so far
    responses         \* history: what the response of each issued call made fetchData set

\* CompanyDataTable (components/company-data-table.tsx)
VARIABLES
    columnAccess      \* what isColumnAccessible returned for each column rendered

scoreVars == <<companies, weights, fullRanges, metricConfigs, currentUserTier, results, pc, calls>>
providerVars == <<filterSettings, currentCurrency, metricFullRanges, displayData, totalCount, rangeLoading, dataLoading, error, debounceTimer, inFlight, rangeRpc, issued, changes, responses>>
tableVars == <<columnAccess>>
vars == <<scoreVars, providerVars, tableVars>>

(***************************************************************************)
(* Bounds of the model.                                                    *)
(***************************************************************************)
MaxWeight == 2      \* weights range over -1 .. MaxWeight
MaxValK == 3        \* raw values range over 5 * (-1 .. MaxValK)
MaxCompanies == 3   \* longest company list that is ranked
MaxCalls == 3       \* calls of calculateScores in a run of repeated calls
MaxFetches == 2     \* get_companies_paginated calls issued in a run
MaxChanges == 2     \* changes of filter settings or currency in a run

(***************************************************************************)
(* JavaScript values: a finite number, NaN, or null / undefined.           *)
(***************************************************************************)
Num(x) == [t |-> "num", v |-> x]
NaN == [t |-> "nan", v |-> 0]
Null == [t |-> "null", v |-> 0]

\* lib/utils isValidNumber: a number that is finite.
isValidNumber(x) == x.t = "num"

\* lib/utils getNestedValue: the value at a dotted path of the record, or
\* undefined when the path does not lead anywhere.
getNestedValue(company, path) ==
    IF path \in DOMAIN company.data THEN company.data[path] ELSE Null

(***************************************************************************)
(* Exact fractions for the double arithmetic of the aggregator.            *)
(***************************************************************************)
Abs(x) == IF x < 0 THEN -x ELSE x

RECURSIVE GCD(_, _)
GCD(a, b) == IF b = 0 THEN a ELSE GCD(b, a % b)

\* the fraction n / d (d # 0) in lowest terms with a positive denominator
Frac(n, d) ==
    LET g == GCD(Abs(n), Abs(d))
        s == IF d < 0 THEN -1 ELSE 1
    IN  [n |-> (s * n) \div g, d |-> (s * d) \div g]

FracInt(k) == [n |-> k, d |-> 1]
FracAdd(a, b) == Frac(a.n * b.d + b.n * a.d, a.d * b.d)
FracSub(a, b) == Frac(a.n * b.d - b.n * a.d, a.d * b.d)
FracMul(a, b) == Frac(a.n * b.n, a.d * b.d)
FracDiv(a, b) == Frac(a.n * b.d, a.d * b.n)
FracLeq(a, b) == a.n * b.d <= b.n * a.d
FracLess(a, b) == a.n * b.d < b.n * a.d

MathMax(a, b) == IF FracLess(a, b) THEN b ELSE a
MathMin(a, b) == IF FracLess(b, a) THEN b ELSE a
\* Math.round: the nearest integer, a half rounding towards +Infinity
MathRound(a) == (2 * a.n + a.d) \div (2 * a.d)

(***************************************************************************)
(* Tier Access Policy: scoringUtils.ts lines 38-39 and 66-67.              *)
(***************************************************************************)
tierLevels == [free |-> 0, medium |-> 1, premium |-> 2]
UnknownUserLevel == -1
UnknownRequiredLevel == 99

\* tierLevels[currentUserTier] ?? -1
userTierLevel(tier) ==
    IF tier \in DOMAIN tierLevels THEN tierLevels[tier] ELSE UnknownUserLevel

\* a slip: an unrecognized required tier defaults to the lowest level
requiredTierLevelPermissive(tier) ==
    IF tier \in DOMAIN tierLevels THEN tierLevels[tier] ELSE UnknownUserLevel

\* tierLevels[metricConfig.tier] ?? 99
requiredTierLevel(tier) ==
    IF tier \in DOMAIN tierLevels THEN tierLevels[tier] ELSE UnknownRequiredLevel

\* component.isAccessible = userTierLevel >= requiredTierLevel
isAccessible(viewerTier, metricTier) ==
    userTierLevel(viewerTier) >= requiredTierLevel(metricTier)

(***************************************************************************)
(* Range Normalizer: scoringUtils.ts lines 90-104.  value, min and max are *)
(* the integers of finite JavaScript numbers.                              *)
(***************************************************************************)
EpsilonInverse == 1000000000

\* rangeWidth > 1e-9; for an integer width that is width > floor(1e-9)
widthExceedsEpsilon(rangeWidth) == rangeWidth > 1 \div EpsilonInverse

\* a slip: in a zero-width range the comparison is turned round
rawNormalizedDegenerateAtOrBelow(value, min, max) ==
    LET rangeWidth == max - min
    IN  IF widthExceedsEpsilon(rangeWidth) THEN Frac(value - min, rangeWidth)
        ELSE IF value <= min THEN Frac(1, 2)
        ELSE FracInt(0)

\* a slip: a zero-width range always normalizes to 0
rawNormalizedDegenerateZero(value, min, max) ==
    LET rangeWidth == max - min
    IN  IF widthExceedsEpsilon(rangeWidth) THEN Frac(value - min, rangeWidth)
        ELSE FracInt(0)

\* lines 93-98: the position in the range, before clamping
rawNormalized(value, min, max) ==
    LET rangeWidth == max - min
    IN  IF widthExceedsEpsilon(rangeWidth) THEN Frac(value - min, rangeWidth)
        ELSE IF value >= min THEN Frac(1, 2)
        ELSE FracInt(0)

\* a slip: only the lower bound is enforced
clampBelowOnly(normalized) == MathMax(FracInt(0), normalized)

\* line 100: Math.max(0, Math.min(1, normalized))
clamp01(normalized) == MathMax(FracInt(0), MathMin(FracInt(1), normalized))

\* a slip: the polarity is ignored
applyPolarityNever(normalized, higherIsBetter) == normalized

\* lines 102-104: polarity inversion of the clamped value
applyPolarity(normalized, higherIsBetter) ==
    IF ~higherIsBetter THEN FracSub(FracInt(1), normalized) ELSE normalized

normalize(value, min, max, higherIsBetter) ==
    applyPolarity(clamp01(rawNormalized(value, min, max)), higherIsBetter)

(***************************************************************************)
(* Score Aggregator: one ScoreComponent, scoringUtils.ts lines 49-112.     *)
(* Optional fields (normalizedValue, error) are the empty tuple when       *)
(* absent and a tuple holding the value when present.                      *)
(***************************************************************************)
ErrNotFound == <<"Metric config not found">>
ErrTier(tier) == <<"Requires", tier, "tier">>
ErrNull == <<"Null value">>
ErrRange == <<"Invalid/Missing range">>

\* lines 51-58: the component as first built
newComponent(db_column, weight, metricConfigs_) ==
    [ metricLabel     |-> IF db_column \in DOMAIN metricConfigs_
                             /\ metricConfigs_[db_column].label # ""
                          THEN metricConfigs_[db_column].label
                          ELSE db_column,
      rawValue        |-> Null,
      normalizedValue |-> << >>,
      weight          |-> weight,
      weightedScore   |-> FracInt(0),
      isIncluded      |-> FALSE,
      isAccessible    |-> FALSE,
      error           |-> << >> ]

\* a slip: a range with min > max is rejected as well
rangeInvalidWhenInverted(db_column, fullRanges_) ==
    \/ db_column \notin DOMAIN fullRanges_
    \/ ~isValidNumber(fullRanges_[db_column][1])
    \/ ~isValidNumber(fullRanges_[db_column][2])
    \/ fullRanges_[db_column][1].v > fullRanges_[db_column][2].v

\* line 84: !range || !isValidNumber(range[0]) || !isValidNumber(range[1])
rangeInvalid(db_column, fullRanges_) ==
    \/ db_column \notin DOMAIN fullRanges_
    \/ ~isValidNumber(fullRanges_[db_column][1])
    \/ ~isValidNumber(fullRanges_[db_column][2])

\* a slip: the range is checked before the value
dataGateRangeFirst(rawValue, db_column, fullRanges_) ==
    IF rangeInvalid(db_column, fullRanges_) THEN ErrRange
    ELSE IF rawValue = Null THEN ErrNull
    ELSE << >>

\* lines 79-88: the two gates behind the tier gate, in the order of the code;
\* the reason of the first that fails, or the empty tuple
dataGate(rawValue, db_column, fullRanges_) ==
    IF rawValue = Null THEN ErrNull
    ELSE IF rangeInvalid(db_column, fullRanges_) THEN ErrRange
    ELSE << >>

\* a slip: the raw value is read and recorded before the tier gate
scoreComponentReadsBeforeTierGate(company, db_column, weight, fullRanges_, metricConfigs_, tier) ==
    LET component == newComponent(db_column, weight, metricConfigs_)
    IN  IF db_column \notin DOMAIN metricConfigs_
        THEN [component EXCEPT !.error = ErrNotFound]
        ELSE
        LET metricConfig == metricConfigs_[db_column]
            access == isAccessible(tier, metricConfig.tier)
            got == getNestedValue(company, metricConfig.nested_path)
            rawValue == IF isValidNumber(got) THEN got ELSE Null
            failed == dataGate(rawValue, db_column, fullRanges_)
        IN  IF ~access
            THEN [component EXCEPT !.rawValue = rawValue,
                                   !.error = ErrTier(metricConfig.tier)]
            ELSE IF failed # << >>
            THEN [component EXCEPT !.isAccessible = TRUE,
                                   !.rawValue = rawValue,
                                   !.error = failed]
            ELSE
            LET normalized == normalize(rawValue.v, fullRanges_[db_column][1].v,
                                        fullRanges_[db_column][2].v,
                                        metricConfig.higherIsBetter)
            IN  [component EXCEPT !.isAccessible = TRUE,
                                  !.rawValue = rawValue,
                                  !.normalizedValue = <<normalized>>,
                                  !.weightedScore = FracMul(normalized, FracInt(weight)),
                                  !.isIncluded = TRUE]

\* lines 49-112: the body of the inner loop for one weighted metric
scoreComponent(company, db_column, weight, fullRanges_, metricConfigs_, tier) ==
    LET component == newComponent(db_column, weight, metricConfigs_)
    IN  IF db_column \notin DOMAIN metricConfigs_
        THEN [component EXCEPT !.error = ErrNotFound]
        ELSE
        LET metricConfig == metricConfigs_[db_column]
            access == isAccessible(tier, metricConfig.tier)
        IN  IF ~access
            THEN [component EXCEPT !.isAccessible = FALSE,
                                   !.error = ErrTier(metricConfig.tier)]
            ELSE
            LET got == getNestedValue(company, metricConfig.nested_path)
                rawValue == IF isValidNumber(got) THEN got ELSE Null
                failed == dataGate(rawValue, db_column, fullRanges_)
            IN  IF failed # << >>
                THEN [component EXCEPT !.isAccessible = TRUE,
                                       !.rawValue = rawValue,
                                       !.error = failed]
                ELSE
                LET min == fullRanges_[db_column][1].v
                    max == fullRanges_[db_column][2].v
                    normalized == normalize(rawValue.v, min, max,
                                            metricConfig.higherIsBetter)
                IN  [component EXCEPT !.isAccessible = TRUE,
                                      !.rawValue = rawValue,
                                      !.normalizedValue = <<normalized>>,
                                      !.weightedScore =
                                          FracMul(normalized, FracInt(weight)),
                                      !.isIncluded = TRUE]

\* a slip: no weight is skipped
weightedColumnsAll(weights_) == DOMAIN weights_

\* a slip: only negative weights are skipped
weightedColumnsFromZero(weights_) == {k \in DOMAIN weights_ : ~(weights_[k] < 0)}

\* lines 46-47: the entries of the weight map the loop does not skip
weightedColumns(weights_) == {k \in DOMAIN weights_ : ~(weights_[k] <= 0)}

\* a slip: a component is stored only when it was included
scoreBreakdownIncludedOnly(company, weights_, fullRanges_, metricConfigs_, tier) ==
    [k \in {x \in weightedColumns(weights_) :
                scoreComponent(company, x, weights_[x], fullRanges_,
                               metricConfigs_, tier).isIncluded} |->
        scoreComponent(company, k, weights_[k], fullRanges_, metricConfigs_, tier)]

\* lines 44-113: the breakdown of one company
scoreBreakdown(company, weights_, fullRanges_, metricConfigs_, tier) ==
    [k \in weightedColumns(weights_) |->
        scoreComponent(company, k, weights_[k], fullRanges_, metricConfigs_, tier)]

RECURSIVE SumFrac(_, _)
\* the sum of f[k] over the keys k in S
SumFrac(S, f) ==
    IF S = {} THEN FracInt(0)
    ELSE LET k == CHOOSE x \in S : TRUE
         IN  FracAdd(f[k], SumFrac(S \ {k}, f))

\* lines 42, 108: the running sum of the weighted scores
totalWeightedScore(breakdown) ==
    SumFrac({k \in DOMAIN breakdown : breakdown[k].isIncluded},
            [k \in DOMAIN breakdown |-> breakdown[k].weightedScore])

\* a slip: the weight of every component is added, included or not
totalEffectiveWeightOfAll(breakdown) ==
    SumFrac(DOMAIN breakdown,
            [k \in DOMAIN breakdown |-> FracInt(breakdown[k].weight)])

\* lines 43, 109: the running sum of the weights of the included metrics
totalEffectiveWeight(breakdown) ==
    SumFrac({k \in DOMAIN breakdown : breakdown[k].isIncluded},
            [k \in DOMAIN breakdown |-> FracInt(breakdown[k].weight)])

ScoreScale == 1000

\* a slip: the weights are taken to sum to 100
finalScorePerCent(tws, tew) ==
    IF FracLess(FracInt(0), tew)
    THEN Num(MathRound(FracMul(FracDiv(tws, FracInt(100)), FracInt(ScoreScale))))
    ELSE Null

\* a slip: the weighted sum is not divided by the sum of the weights
finalScoreUndivided(tws, tew) ==
    IF FracLess(FracInt(0), tew)
    THEN Num(MathRound(FracMul(tws, FracInt(ScoreScale))))
    ELSE Null

\* lines 115-122: the final score, null or a rounded number
finalScore(tws, tew) ==
    IF FracLess(FracInt(0), tew)
    THEN Num(MathRound(FracMul(FracDiv(tws, tew), FracInt(ScoreScale))))
    ELSE Null

\* lines 119-124: the CompanyScore pushed for one company
companyScore(company, weights_, fullRanges_, metricConfigs_, tier) ==
    LET breakdown == scoreBreakdown(company, weights_, fullRanges_, metricConfigs_, tier)
    IN  [ companyId   |-> company.company_id,
          companyName |-> company.company_name,
          score       |-> finalScore(totalWeightedScore(breakdown),
                                     totalEffectiveWeight(breakdown)),
          breakdown   |-> breakdown ]

(***************************************************************************)
(* Result Ranker: scoringUtils.ts line 127.                                *)
(***************************************************************************)
NullSortKey == -1

\* score ?? -1
sortKey(r) == IF r.score = Null THEN NullSortKey ELSE r.score.v

\* a slip: null is replaced by 0, so it ties with a score of 0
compareScoresNullAsZero(a, b) ==
    (IF b.score = Null THEN 0 ELSE b.score.v) - (IF a.score = Null THEN 0 ELSE a.score.v)

\* the comparator (a, b) => (b.score ?? -1) - (a.score ?? -1)
compareScores(a, b) == sortKey(b) - sortKey(a)

RECURSIVE insertSortedAheadOfTies(_, _)
\* a slip: x is put ahead of the elements it ties with (no stable sort)
insertSortedAheadOfTies(s, x) ==
    IF s = << >> THEN <<x>>
    ELSE IF compareScores(s[Len(s)], x) >= 0
         THEN Append(insertSortedAheadOfTies(SubSeq(s, 1, Len(s) - 1), x), s[Len(s)])
         ELSE Append(s, x)

RECURSIVE insertSorted(_, _)
\* x put behind every element the comparator does not order after it
insertSorted(s, x) ==
    IF s = << >> THEN <<x>>
    ELSE IF compareScores(s[Len(s)], x) > 0
         THEN Append(insertSorted(SubSeq(s, 1, Len(s) - 1), x), s[Len(s)])
         ELSE Append(s, x)

RECURSIVE sortResults(_)
\* Array.prototype.sort with compareScores: a stable sort
sortResults(s) ==
    IF s = << >> THEN << >>
    ELSE insertSorted(sortResults(SubSeq(s, 1, Len(s) - 1)), s[Len(s)])

\* a slip: a company without a score is left out of the list
calculateScoresSkipsUnscored(companies_, weights_, fullRanges_, metricConfigs_, tier) ==
    sortResults(SelectSeq(
        [i \in 1..Len(companies_) |->
            companyScore(companies_[i], weights_, fullRanges_, metricConfigs_, tier)],
        LAMBDA r : r.score # Null))

\* the extremes of the finite values the companies passed in have at path
pageExtremes(companies_, path) ==
    LET vs == {getNestedValue(companies_[i], path).v : i \in
                  {j \in 1..Len(companies_) :
                      isValidNumber(getNestedValue(companies_[j], path))}}
    IN  <<Num(CHOOSE v \in vs : \A u \in vs : v <= u),
          Num(CHOOSE v \in vs : \A u \in vs : v >= u)>>

\* a slip: a metric is normalized against the extremes of the companies
\* passed in, when they have a value for it, not against the supplied range
calculateScoresPageRanges(companies_, weights_, fullRanges_, metricConfigs_, tier) ==
    LET known == {k \in DOMAIN fullRanges_ \cap DOMAIN metricConfigs_ :
                    \E i \in 1..Len(companies_) :
                        isValidNumber(getNestedValue(companies_[i],
                                                     metricConfigs_[k].nested_path))}
        ranges == [k \in DOMAIN fullRanges_ |->
                    IF k \in known
                    THEN pageExtremes(companies_, metricConfigs_[k].nested_path)
                    ELSE fullRanges_[k]]
    IN  sortResults([i \in 1..Len(companies_) |->
            companyScore(companies_[i], weights_, ranges, metricConfigs_, tier)])

\* a slip: the results array lives outside the function and is never emptied
resultsLeftFromLastCall == results

\* line 37: const results = [], allocated by every call
resultsAtEntry == << >>

\* lines 30-130
calculateScores(companies_, weights_, fullRanges_, metricConfigs_, tier) ==
    sortResults(resultsAtEntry \o [i \in 1..Len(companies_) |->
        companyScore(companies_[i], weights_, fullRanges_, metricConfigs_, tier)])

(***************************************************************************)
(* Inputs.  The metric catalog (lib/metric-types) gives each metric a      *)
(* db_column, a label, a tier, a polarity and the path of its value.       *)
(***************************************************************************)
MetricConfig(label, tier, higherIsBetter, path) ==
    [label |-> label, tier |-> tier, higherIsBetter |-> higherIsBetter,
     nested_path |-> path]

ColMarketCap == "market_cap_value"
ColDebt == "debt_value"
ColReserves == "reserves_total"
Columns == {ColMarketCap, ColDebt, ColReserves}

NestedPath ==
    [c \in Columns |->
        CASE c = ColMarketCap -> "financials.market_cap_value"
          [] c = ColDebt      -> "financials.debt_value"
          [] c = ColReserves  -> "mineral_estimates.reserves_total"]

Label ==
    [c \in Columns |->
        CASE c = ColMarketCap -> "Market Cap"
          [] c = ColDebt      -> "Total Debt"
          [] c = ColReserves  -> "Total Reserves"]

\* the catalog entries of a page that scores three metrics
Catalog ==
    [c \in Columns |->
        CASE c = ColMarketCap -> MetricConfig(Label[c], "free", TRUE, NestedPath[c])
          [] c = ColDebt      -> MetricConfig(Label[c], "medium", FALSE, NestedPath[c])
          [] c = ColReserves  -> MetricConfig(Label[c], "premium", TRUE, NestedPath[c])]

KnownTiers == {"free", "medium", "premium"}
\* "enterprise" is no key of tierLevels: an unrecognized tier
AnyTiers == KnownTiers \cup {"enterprise"}

NumValues == {5 * k : k \in -1..MaxValK}
RawValues == {Null, NaN} \cup {Num(v) : v \in NumValues}
RangeBounds == {NaN, Num(0), Num(10)}
WeightValues == -1..MaxWeight

Company(id, data) ==
    [company_id |-> id, company_name |-> <<"Company", id>>, data |-> data]

NoEntries == << >>     \* the empty record {}
One(k, v) == [x \in {k} |-> v]

(***************************************************************************)
(* The inputs of the gates: one company and one metric, with every         *)
(* combination of weight, catalog entry, tier, raw value and range.        *)
(***************************************************************************)
GateInputs ==
    /\ companies \in {<<Company(1, d)>> :
            d \in {NoEntries} \cup {One(NestedPath[ColMarketCap], v) : v \in RawValues}}
    /\ weights \in {NoEntries} \cup {One(ColMarketCap, w) : w \in WeightValues}
    /\ metricConfigs \in {NoEntries} \cup
            {One(ColMarketCap, MetricConfig(Label[ColMarketCap], t, h,
                                            NestedPath[ColMarketCap])) :
                t \in AnyTiers, h \in BOOLEAN}
    /\ fullRanges \in {NoEntries} \cup
            {One(ColMarketCap, <<a, b>>) : a \in RangeBounds, b \in RangeBounds}
    /\ currentUserTier \in AnyTiers

(***************************************************************************)
(* The inputs of the aggregation: one company with three catalogued        *)
(* metrics, each with a weight, under a recognized tier.                   *)
(***************************************************************************)
AggregateValues == {Null, Num(0), Num(5), Num(10)}
AggregateRanges ==
    [c \in Columns |->
        CASE c = ColMarketCap -> <<Num(0), Num(10)>>
          [] c = ColDebt      -> <<Num(-5), Num(10)>>
          [] c = ColReserves  -> <<Num(10), Num(10)>>]

AggregateInputs ==
    /\ companies \in {<<Company(1, [c \in {NestedPath[k] : k \in Columns} |->
                            d[CHOOSE k \in Columns : NestedPath[k] = c]])>> :
            d \in [Columns -> AggregateValues]}
    /\ weights \in [Columns -> 0..MaxWeight]
    /\ metricConfigs = Catalog
    /\ fullRanges = AggregateRanges
    /\ currentUserTier \in KnownTiers

(***************************************************************************)
(* The inputs of the ranking: up to MaxCompanies companies that differ in  *)
(* one metric, weighted or not.                                            *)
(***************************************************************************)
RankValues == {Null, Num(0), Num(5), Num(10)}

RankInputs ==
    /\ \E n \in 0..MaxCompanies :
          companies \in {[i \in 1..n |-> Company(i, One(NestedPath[ColMarketCap], f[i]))] :
                            f \in [1..n -> RankValues]}
    /\ weights \in {NoEntries, One(ColMarketCap, 0), One(ColMarketCap, 1)}
    /\ metricConfigs = Catalog
    /\ fullRanges = AggregateRanges
    /\ currentUserTier = "premium"

(***************************************************************************)
(* FilterProvider: contexts/filter-context.tsx.                            *)
(*                                                                         *)
(* A handler, the render it causes and the effects of that render are one  *)
(* step.  The debounce timer and the two remote procedure calls are the    *)
(* points where other steps interleave.                                    *)
(***************************************************************************)
DEFAULT_FILTER_SETTINGS ==
    [developmentStatus |-> <<"producer", "developer", "explorer">>,
     metricRanges |-> NoEntries,
     searchTerm |-> ""]

Currencies == {"USD", "CAD"}
SearchTerms == {" gold "}
StatusChoices == {<<"producer">>}
MetricRangeChoices == {<<Num(5), Null>>}

\* String.prototype.trim on the search terms of the model
Trim(term) == IF term = " gold " THEN "gold" ELSE term

SeqToSet(q) == {q[i] : i \in 1..Len(q)}

\* filter-context.tsx lines 90-108: the filters sent with the call; a key
\* the code leaves out is the empty tuple, string or record here
filtersJson(settings) ==
    [status |-> IF Len(settings.developmentStatus) > 0
                THEN settings.developmentStatus ELSE << >>,
     searchTerm |-> Trim(settings.searchTerm),
     min |-> [c \in {k \in DOMAIN settings.metricRanges :
                        isValidNumber(settings.metricRanges[k][1])} |->
                settings.metricRanges[c][1].v],
     max |-> [c \in {k \in DOMAIN settings.metricRanges :
                        isValidNumber(settings.metricRanges[k][2])} |->
                settings.metricRanges[c][2].v]]

\* the companies table behind get_companies_paginated
CompaniesTable ==
    << [company_id |-> 1, name |-> "gold", status |-> "producer", market_cap |-> 10],
       [company_id |-> 2, name |-> "silver", status |-> "producer", market_cap |-> 0],
       [company_id |-> 3, name |-> "gold", status |-> "explorer", market_cap |-> 0] >>

RowMatches(row, filters) ==
    /\ filters.status # << >> => row.status \in SeqToSet(filters.status)
    /\ filters.searchTerm # "" => row.name = filters.searchTerm
    /\ \A c \in DOMAIN filters.min : c = ColMarketCap => row.market_cap >= filters.min[c]
    /\ \A c \in DOMAIN filters.max : c = ColMarketCap => row.market_cap <= filters.max[c]

\* the rows get_companies_paginated returns: the matching companies by
\* name, each with the number of matching rows and the value in the currency
RpcRows(filters, currency) ==
    LET matching == SelectSeq(CompaniesTable, LAMBDA row : RowMatches(row, filters))
    IN  [i \in 1..Len(matching) |->
            [company_id |-> matching[i].company_id,
             market_cap |-> matching[i].market_cap * (IF currency = "CAD" THEN 2 ELSE 1),
             total_rows |-> Len(matching)]]

\* lib/converters convertRpcRowsToCompanies: a Company per row
convertRpcRowsToCompanies(rows) ==
    [i \in 1..Len(rows) |->
        Company(rows[i].company_id,
                One(NestedPath[ColMarketCap], Num(rows[i].market_cap)))]

(***************************************************************************)
(* ScoringPage: pages/scoring/index.tsx.                                   *)
(*                                                                         *)
(* The page reads displayData, metricFullRanges and currentUserTier from   *)
(* the FilterProvider and keeps metricWeights; scores is recomputed in the *)
(* render that follows a change of any of them.  A handler and that render *)
(* are one step.                                                           *)
(***************************************************************************)
\* lib/metric-types: the category of each metric of the catalog
Category ==
    [c \in Columns |->
        CASE c = ColMarketCap -> "financials"
          [] c = ColDebt      -> "financials"
          [] c = ColReserves  -> "mineral-estimates"]

metricCategories == {Category[c] : c \in Columns}

getMetricsByCategory(category) == {c \in Columns : Category[c] = category}

\* lib/tier-utils isFeatureAccessible
isFeatureAccessible(requiredTier, currentTier) ==
    /\ requiredTier \in DOMAIN tierLevels
    /\ currentTier \in DOMAIN tierLevels
    /\ tierLevels[currentTier] >= tierLevels[requiredTier]

\* lines 137-139: the metrics for which the page renders a slider; every
\* metric of the model has a scoreable format
SliderMetrics == UNION {getMetricsByCategory(category) : category \in metricCategories}

\* lines 173-175: the positions of a slider, in steps
SliderValues == 0..MaxWeight

\* lines 75-78
metricConfigsMap == [c \in getMetricsByCategory("financials") |-> Catalog[c]]

\* lines 72-87
scores(displayData_, metricWeights, metricFullRanges_, tier) ==
    IF Len(displayData_) = 0 \/ DOMAIN metricWeights = {} THEN << >>
    ELSE calculateScores(displayData_, metricWeights, metricFullRanges_,
                         metricConfigsMap, tier)

\* line 149: metricWeights[metric.db_column] ?? 0
currentWeight(db_column) == IF db_column \in DOMAIN weights THEN weights[db_column] ELSE 0

\* lines 170-181: the slider is there for an accessible metric and enabled
\* when the metric has a range; it reports a value other than the one shown
SliderReports(db_column, value) ==
    /\ isFeatureAccessible(Catalog[db_column].tier, currentUserTier)
    /\ db_column \in DOMAIN metricFullRanges
    /\ value # currentWeight(db_column)

\* lines 35-40 and the render
handleWeightChange ==
    \E db_column \in SliderMetrics, value \in SliderValues :
        /\ SliderReports(db_column, value)
        /\ weights' = [k \in DOMAIN weights \cup {db_column} |->
                            IF k = db_column THEN value ELSE weights[k]]
        /\ results' = scores(displayData, weights', metricFullRanges, currentUserTier)
        /\ UNCHANGED <<companies, fullRanges, metricConfigs, currentUserTier, pc, calls>>
        /\ UNCHANGED <<providerVars, tableVars>>

\* lines 42-44 and the render
handleResetWeights ==
    /\ weights' = NoEntries
    /\ results' = scores(displayData, weights', metricFullRanges, currentUserTier)
    /\ UNCHANGED <<companies, fullRanges, metricConfigs, currentUserTier, pc, calls>>
    /\ UNCHANGED <<providerVars, tableVars>>

\* a slip: scores does not depend on currentUserTier and is not recomputed
setCurrentUserTierKeepsScores ==
    \E tier \in KnownTiers \ {currentUserTier} :
        /\ currentUserTier' = tier
        /\ UNCHANGED <<companies, weights, fullRanges, metricConfigs, results, pc, calls>>
        /\ UNCHANGED <<providerVars, tableVars>>

\* Header (part_001 lines 28-31): the tier selector, and the render
setCurrentUserTier ==
    \E tier \in KnownTiers \ {currentUserTier} :
        /\ currentUserTier' = tier
        /\ results' = scores(displayData, weights, metricFullRanges, tier)
        /\ UNCHANGED <<companies, weights, fullRanges, metricConfigs, pc, calls>>
        /\ UNCHANGED <<providerVars, tableVars>>

\* the companies on display
PageCompanies ==
    << Company(1, [q \in {NestedPath[k] : k \in Columns} |->
                      IF q = NestedPath[ColDebt] THEN Num(0) ELSE Num(10)]),
       Company(2, [q \in {NestedPath[k] : k \in Columns} |-> Num(5)]) >>

(***************************************************************************)
(* CompanyDataTable: components/company-data-table.tsx lines 360-370.      *)
(***************************************************************************)
\* the viewer tier when the caller passes none
AbsentTier == "undefined"

NoAccess == << >>
Access(tier) == <<[tier |-> tier]>>
ColumnDef(key, access) == [key |-> key, access |-> access]

\* line 362
columnTierLevels == [free |-> 0, medium |-> 1, premium |-> 2]

\* lines 360-370
isColumnAccessible(column, currentTier) ==
    IF column.access = NoAccess THEN TRUE
    ELSE LET userTier == IF currentTier = AbsentTier THEN "free" ELSE currentTier
             requiredTier == column.access[1].tier
         IN  IF userTier \notin DOMAIN columnTierLevels
                \/ requiredTier \notin DOMAIN columnTierLevels
             THEN FALSE
             ELSE columnTierLevels[userTier] >= columnTierLevels[requiredTier]

\* the table before its first render
TableNotRendered == columnAccess = << >>

\* the column the table shows for a metric of the catalog, and one column
\* without an access requirement
TableColumns ==
    [c \in DOMAIN metricConfigs |-> ColumnDef(metricConfigs[c].nested_path, Access(metricConfigs[c].tier))]
        @@ ("company_name" :> ColumnDef("company_name", NoAccess))

\* the render of the table: isColumnAccessible for every column
RenderTable ==
    /\ columnAccess = << >>
    /\ columnAccess' = [c \in DOMAIN TableColumns |->
                            isColumnAccessible(TableColumns[c], currentUserTier)]
    /\ UNCHANGED <<scoreVars, providerVars>>

\* the state after the mount: the initial useState values (lines 45-54) and
\* the two effects of the first render (lines 57-83 and 142-147)
ProviderMounted ==
    /\ filterSettings = DEFAULT_FILTER_SETTINGS
    /\ currentCurrency = "USD"
    /\ metricFullRanges = NoEntries
    /\ displayData = << >>
    /\ totalCount = 0
    /\ rangeLoading = TRUE
    /\ dataLoading = TRUE
    /\ error = << >>
    /\ debounceTimer = <<[settings |-> DEFAULT_FILTER_SETTINGS, currency |-> "USD"]>>
    /\ inFlight = {}
    /\ rangeRpc = "pending"
    /\ issued = 0
    /\ changes = 0
    /\ responses = << >>

\* line 53
loading == rangeLoading \/ dataLoading

\* a slip: the effect has no cleanup, the earlier call stays scheduled
RescheduleFetchWithoutClear(settings, currency) ==
    debounceTimer' = Append(debounceTimer, [settings |-> settings, currency |-> currency])

\* lines 142-147: the effect run after a render with new filter settings or
\* currency: the cleanup clears the pending call, the effect schedules one
RescheduleFetch(settings, currency) ==
    debounceTimer' = <<[settings |-> settings, currency |-> currency]>>

\* a change of the filter settings: setFilterSettings and the render
SetFilterSettings(settings) ==
    /\ changes < MaxChanges
    /\ changes' = changes + 1
    /\ filterSettings' = settings
    /\ RescheduleFetch(settings, currentCurrency)
    /\ UNCHANGED <<currentCurrency, metricFullRanges, displayData, totalCount,
                   rangeLoading, dataLoading, error, inFlight, rangeRpc, issued,
                   responses>>
    /\ UNCHANGED <<scoreVars, tableVars>>

\* lines 149-154
handleSetDevelopmentStatus ==
    \E statuses \in StatusChoices :
        SetFilterSettings([filterSettings EXCEPT !.developmentStatus = statuses])

\* lines 156-161
handleSetMetricRange ==
    \E range \in MetricRangeChoices :
        SetFilterSettings([filterSettings EXCEPT !.metricRanges =
            [k \in DOMAIN @ \cup {ColMarketCap} |->
                IF k = ColMarketCap THEN range ELSE @[k]]])

\* lines 163-168
handleSetSearchTerm ==
    \E term \in SearchTerms :
        SetFilterSettings([filterSettings EXCEPT !.searchTerm = term])

\* lines 170-172
handleResetFilters == SetFilterSettings(DEFAULT_FILTER_SETTINGS)

\* line 46: setCurrentCurrency; the same currency causes no render
setCurrentCurrency ==
    \E currency \in Currencies \ {currentCurrency} :
        /\ changes < MaxChanges
        /\ changes' = changes + 1
        /\ currentCurrency' = currency
        /\ RescheduleFetch(filterSettings, currency)
        /\ UNCHANGED <<filterSettings, metricFullRanges, displayData, totalCount,
                       rangeLoading, dataLoading, error, inFlight, rangeRpc, issued,
                       responses>>
        /\ UNCHANGED <<scoreVars, tableVars>>

\* lines 140 and 86-118: 350 ms after the last scheduling the debounced call
\* runs fetchData up to its await: the call is issued
DebounceFires ==
    /\ debounceTimer # << >>
    /\ issued < MaxFetches
    /\ dataLoading' = TRUE
    /\ error' = << >>
    /\ issued' = issued + 1
    /\ inFlight' = inFlight \cup
            {[id |-> issued + 1,
              filters |-> filtersJson(debounceTimer[1].settings),
              target_currency |-> debounceTimer[1].currency]}
    /\ debounceTimer' = << >>
    /\ UNCHANGED <<filterSettings, currentCurrency, metricFullRanges, displayData,
                   totalCount, rangeLoading, rangeRpc, changes, responses>>
    /\ UNCHANGED <<scoreVars, tableVars>>

\* what fetchData sets once the call of request req has settled
Settle(req, outcome, data, count, err) ==
    /\ inFlight' = inFlight \ {req}
    /\ displayData' = data
    /\ totalCount' = count
    /\ error' = err
    /\ dataLoading' = FALSE
    /\ responses' = responses @@
            (req.id :> [outcome |-> outcome, displayData |-> data, totalCount |-> count])
    /\ UNCHANGED <<filterSettings, currentCurrency, metricFullRanges, rangeLoading,
                   debounceTimer, rangeRpc, issued, changes>>
    /\ UNCHANGED <<scoreVars, tableVars>>

\* lines 125-129 and 135-137: the call returns rows
CompaniesReturned ==
    \E req \in inFlight :
        LET data == RpcRows(req.filters, req.target_currency)
            converted == convertRpcRowsToCompanies(data)
        IN  Settle(req, "rows", converted,
                   IF Len(data) > 0 THEN data[1].total_rows ELSE Len(converted),
                   error)

\* lines 122-124 and 135-137: the call returns no data
NoDataReturned ==
    \E req \in inFlight : Settle(req, "no data", << >>, 0, error)

\* a slip: the catch block sets the error and keeps the data shown
FetchFailedKeepsData ==
    \E req \in inFlight, message \in {"rpc error", "conversion error"} :
        Settle(req, "error", displayData, totalCount, <<"Data fetch failed", message>>)

\* a slip: setDataLoading(false) only at the end of the try block
FetchFailedWithoutFinally ==
    \E req \in inFlight, message \in {"rpc error", "conversion error"} :
        /\ inFlight' = inFlight \ {req}
        /\ displayData' = << >>
        /\ totalCount' = 0
        /\ error' = <<"Data fetch failed", message>>
        /\ responses' = responses @@
                (req.id :> [outcome |-> "error", displayData |-> << >>, totalCount |-> 0])
        /\ UNCHANGED <<filterSettings, currentCurrency, metricFullRanges, rangeLoading,
                       dataLoading, debounceTimer, rangeRpc, issued, changes>>
        /\ UNCHANGED <<scoreVars, tableVars>>

\* lines 120 and 130-137: the call returns an error, or the conversion of
\* the rows throws
FetchFailed ==
    \E req \in inFlight, message \in {"rpc error", "conversion error"} :
        Settle(req, "error", << >>, 0, <<"Data fetch failed", message>>)

\* lines 62-72 and 77-79: get_metrics_ranges returns
RangesReturned ==
    /\ rangeRpc = "pending"
    /\ rangeRpc' = "settled"
    /\ \E data \in {AggregateRanges, NoEntries} : metricFullRanges' = data
    /\ rangeLoading' = FALSE
    /\ UNCHANGED <<filterSettings, currentCurrency, displayData, totalCount,
                   dataLoading, error, debounceTimer, inFlight, issued, changes,
                   responses>>
    /\ UNCHANGED <<scoreVars, tableVars>>

\* lines 64-66 and 73-79: get_metrics_ranges fails
RangesFailed ==
    /\ rangeRpc = "pending"
    /\ rangeRpc' = "failed"
    /\ error' = <<"Database error fetching ranges">>
    /\ metricFullRanges' = NoEntries
    /\ rangeLoading' = FALSE
    /\ UNCHANGED <<filterSettings, currentCurrency, displayData, totalCount,
                   dataLoading, debounceTimer, inFlight, issued, changes, responses>>
    /\ UNCHANGED <<scoreVars, tableVars>>

InitProvider ==
    /\ ProviderMounted
    /\ TableNotRendered
    /\ companies = << >>
    /\ weights = NoEntries
    /\ fullRanges = NoEntries
    /\ metricConfigs = Catalog
    /\ currentUserTier = "free"
    /\ results = << >>
    /\ pc = "ready"
    /\ calls = << >>

NextProvider ==
    \/ handleSetDevelopmentStatus
    \/ handleSetMetricRange
    \/ handleSetSearchTerm
    \/ handleResetFilters
    \/ setCurrentCurrency
    \/ DebounceFires
    \/ CompaniesReturned
    \/ NoDataReturned
    \/ FetchFailed
    \/ RangesReturned
    \/ RangesFailed

SpecProvider == InitProvider /\ [][NextProvider]_vars

\* the debounce timer fires, and every issued call settles
SpecProviderFair ==
    /\ SpecProvider
    /\ WF_vars(DebounceFires)
    /\ WF_vars(CompaniesReturned \/ NoDataReturned \/ FetchFailed)
    /\ WF_vars(RangesReturned \/ RangesFailed)

Init ==
    /\ ProviderMounted
    /\ TableNotRendered
    /\ pc = "ready"
    /\ results = << >>
    /\ calls = << >>
    /\ \/ GateInputs
       \/ AggregateInputs
       \/ RankInputs

Arguments == <<companies, weights, fullRanges, metricConfigs, currentUserTier>>

\* a slip: the companies array itself is sorted, in the order of the scores
CallSortsCompanies ==
    /\ pc = "ready"
    /\ results' = calculateScores(companies, weights, fullRanges, metricConfigs,
                                  currentUserTier)
    /\ companies' = [i \in 1..Len(companies) |->
                        CHOOSE c \in {companies[j] : j \in 1..Len(companies)} :
                            c.company_id = results'[i].companyId]
    /\ pc' = "done"
    /\ calls' = Append(calls, [args |-> Arguments, out |-> results'])
    /\ UNCHANGED <<providerVars, tableVars>>
    /\ UNCHANGED <<weights, fullRanges, metricConfigs, currentUserTier>>

\* the call of calculateScores on the inputs
Call ==
    /\ pc = "ready"
    /\ results' = calculateScores(companies, weights, fullRanges, metricConfigs,
                                  currentUserTier)
    /\ pc' = "done"
    /\ calls' = Append(calls, [args |-> Arguments, out |-> results'])
    /\ UNCHANGED <<providerVars, tableVars>>
    /\ UNCHANGED <<companies, weights, fullRanges, metricConfigs, currentUserTier>>

Next == Call

Spec == Init /\ [][Next]_vars

\* every viewer tier against every required tier, on both pages
TierInputs ==
    /\ currentUserTier \in AnyTiers \cup {AbsentTier}
    /\ metricConfigs \in [Columns -> {MetricConfig("Metric", t, TRUE, "financials.metric") : t \in AnyTiers}]
    /\ companies = <<Company(1, One("financials.metric", Num(5)))>>
    /\ weights = [c \in Columns |-> 1]
    /\ fullRanges = AggregateRanges

InitTiers ==
    /\ ProviderMounted
    /\ TableNotRendered
    /\ pc = "ready"
    /\ results = << >>
    /\ calls = << >>
    /\ TierInputs

\* the scoring page once the provider has loaded the ranges and the
\* companies: no weights yet, the viewer tier of the provider's default
InitPage ==
    /\ TableNotRendered
    /\ filterSettings = DEFAULT_FILTER_SETTINGS
    /\ currentCurrency = "USD"
    /\ metricFullRanges = AggregateRanges
    /\ displayData = PageCompanies
    /\ totalCount = Len(PageCompanies)
    /\ rangeLoading = FALSE
    /\ dataLoading = FALSE
    /\ error = << >>
    /\ debounceTimer = << >>
    /\ inFlight = {}
    /\ rangeRpc = "settled"
    /\ issued = 1
    /\ changes = 0
    /\ responses = (1 :> [outcome |-> "rows", displayData |-> PageCompanies,
                          totalCount |-> Len(PageCompanies)])
    /\ currentUserTier = "free"
    /\ weights = NoEntries
    /\ companies = displayData
    /\ fullRanges = metricFullRanges
    /\ metricConfigs = metricConfigsMap
    /\ results = scores(displayData, weights, metricFullRanges, currentUserTier)
    /\ pc = "done"
    /\ calls = << >>

NextPage == handleWeightChange \/ handleResetWeights \/ setCurrentUserTier

SpecPage == InitPage /\ [][NextPage]_vars

\* the table and the scoring page render for the same viewer and metrics
NextTiers == Call \/ RenderTable

SpecTiers == InitTiers /\ [][NextTiers]_vars

(***************************************************************************)
(* Repeated calls: the caller (the memo of the scoring page, index.tsx     *)
(* lines 72-87) calls calculateScores again whenever an input changed,     *)
(* each time with a fresh snapshot of the inputs.                          *)
(***************************************************************************)
RankWeights == {NoEntries, One(ColMarketCap, 0), One(ColMarketCap, 1)}

InitCalls ==
    /\ ProviderMounted
    /\ TableNotRendered
    /\ pc = "ready"
    /\ results = << >>
    /\ calls = << >>
    /\ RankInputs

\* the caller holds a new snapshot of the weights and is about to call again
NewSnapshot ==
    /\ pc = "done"
    /\ Len(calls) < MaxCalls
    /\ weights' \in RankWeights
    /\ pc' = "ready"
    /\ UNCHANGED <<companies, fullRanges, metricConfigs, currentUserTier, results, calls>>
    /\ UNCHANGED <<providerVars, tableVars>>

NextCalls == Call \/ NewSnapshot

SpecCalls == InitCalls /\ [][NextCalls]_vars

(***************************************************************************)
(* Vocabulary of the properties, stated on the inputs and the output and   *)
(* independently of the operators above.                                   *)
(***************************************************************************)
Done == pc = "done"
Returned == {results[i] : i \in 1..Len(results)}
Included(r) == {k \in DOMAIN r.breakdown : r.breakdown[k].isIncluded}
InputCompany(r) ==
    CHOOSE c \in {companies[i] : i \in 1..Len(companies)} : c.company_id = r.companyId

\* the pairs <<viewer tier, required tier>> of free < medium < premium that
\* grant access
Grants(viewer, required) ==
    <<viewer, required>> \in
        { <<"free", "free">>,
          <<"medium", "free">>, <<"medium", "medium">>,
          <<"premium", "free">>, <<"premium", "medium">>, <<"premium", "premium">> }

HasConfig(k) == k \in DOMAIN metricConfigs
\* the company's raw value for metric k is a finite number
HasFiniteValue(c, k) ==
    /\ metricConfigs[k].nested_path \in DOMAIN c.data
    /\ c.data[metricConfigs[k].nested_path].t = "num"
InputValue(c, k) == c.data[metricConfigs[k].nested_path].v
\* the range of metric k exists and both bounds are finite
HasFiniteRange(k) ==
    /\ k \in DOMAIN fullRanges
    /\ fullRanges[k][1].t = "num"
    /\ fullRanges[k][2].t = "num"
RangeMin(k) == fullRanges[k][1].v
RangeMax(k) == fullRanges[k][2].v

\* every gate other than the weight passes for company c and metric k
PassesGates(c, k) ==
    /\ HasConfig(k)
    /\ Grants(currentUserTier, metricConfigs[k].tier)
    /\ HasFiniteValue(c, k)
    /\ HasFiniteRange(k)

RECURSIVE SumInt(_, _)
SumInt(S, f) ==
    IF S = {} THEN 0
    ELSE LET k == CHOOSE x \in S : TRUE IN f[k] + SumInt(S \ {k}, f)

\* the integer s is the fraction q rounded to the nearest integer, halves up
IsRounded(s, q) ==
    /\ (2 * s - 1) * q.d <= 2 * q.n
    /\ 2 * q.n < (2 * s + 1) * q.d

\* S / W of a result: the sums over its included components
IncludedScoreSum(r) ==
    SumFrac(Included(r), [k \in DOMAIN r.breakdown |-> r.breakdown[k].weightedScore])
IncludedWeightSum(r) ==
    SumInt(Included(r), [k \in DOMAIN r.breakdown |-> r.breakdown[k].weight])

(***************************************************************************)
(* C1: for every company of the output, score is null exactly when no      *)
(* component of its breakdown is included; otherwise it is                 *)
(* round(1000 * S / W) with S the sum of weightedScore (= normalizedValue  *)
(* * weight) and W the sum of weight over the included components.         *)
(***************************************************************************)
C1_ScoreIsRoundedWeightedAverage ==
    Done =>
        \A r \in Returned :
            /\ \A k \in Included(r) :
                  LET c == r.breakdown[k]
                  IN  /\ Len(c.normalizedValue) = 1
                      /\ c.weightedScore.n * c.normalizedValue[1].d
                            = c.normalizedValue[1].n * c.weight * c.weightedScore.d
            /\ (r.score = Null) <=> (Included(r) = {})
            /\ Included(r) # {} =>
                  /\ r.score.t = "num"
                  /\ IncludedWeightSum(r) > 0
                  /\ IsRounded(r.score.v,
                               [n |-> ScoreScale * IncludedScoreSum(r).n,
                                d |-> IncludedScoreSum(r).d * IncludedWeightSum(r)])

\* a company with two or more included metrics and an excluded one whose
\* weighted average is no integer, so that the score was rounded
C1_Witness ==
    /\ Done
    /\ \E r \in Returned :
          /\ Cardinality(Included(r)) >= 2
          /\ DOMAIN r.breakdown # Included(r)
          /\ r.score.t = "num"
          /\ (ScoreScale * IncludedScoreSum(r).n)
                % (IncludedScoreSum(r).d * IncludedWeightSum(r)) # 0

(***************************************************************************)
(* C2: for every company and every key of the weight map, the breakdown    *)
(* has an included component for the key iff the weight is > 0, the metric *)
(* definition exists, the viewer tier satisfies the required tier, the raw *)
(* value is finite and the range exists with finite bounds; a weight <= 0  *)
(* is never included.                                                      *)
(***************************************************************************)
C2_IncludedIffAllGates ==
    Done =>
        \A r \in Returned : \A k \in DOMAIN weights :
            /\ (k \in Included(r)) <=> (weights[k] > 0 /\ PassesGates(InputCompany(r), k))
            /\ weights[k] <= 0 => k \notin Included(r)

\* a metric of weight 0 that passes every other gate stays out, next to an
\* included metric of the same company
C2_Witness ==
    /\ Done
    /\ \E r \in Returned : \E k, k2 \in DOMAIN weights :
          /\ weights[k] <= 0
          /\ PassesGates(InputCompany(r), k)
          /\ k \notin Included(r)
          /\ k2 \in Included(r)

(***************************************************************************)
(* C3: a component of a catalogued metric has isAccessible = TRUE iff      *)
(* viewer tier and required tier are both recognized and                   *)
(* rank(viewer) >= rank(required) in free < medium < premium; an           *)
(* unrecognized tier on either side denies access.                         *)
(***************************************************************************)
C3_TierGateFailsClosed ==
    Done =>
        \A r \in Returned : \A k \in DOMAIN r.breakdown :
            HasConfig(k) =>
                /\ r.breakdown[k].isAccessible
                      <=> Grants(currentUserTier, metricConfigs[k].tier)
                /\ (currentUserTier \notin KnownTiers
                      \/ metricConfigs[k].tier \notin KnownTiers)
                      => ~r.breakdown[k].isAccessible

\* an unrecognized viewer tier is denied a metric of the free tier
C3_Witness ==
    /\ Done
    /\ currentUserTier \notin KnownTiers
    /\ \E r \in Returned : \E k \in DOMAIN r.breakdown :
          /\ HasConfig(k)
          /\ metricConfigs[k].tier = "free"
          /\ ~r.breakdown[k].isAccessible

(***************************************************************************)
(* C4: the gates are evaluated in the order definition missing, tier       *)
(* denied, raw value not finite, range missing or not finite, and a        *)
(* component records the reason of the first gate that fails; an excluded  *)
(* component carries exactly one reason, an included one none.             *)
(***************************************************************************)
ExpectedReason(c, k) ==
    IF ~HasConfig(k) THEN <<"Metric config not found">>
    ELSE IF ~Grants(currentUserTier, metricConfigs[k].tier)
         THEN <<"Requires", metricConfigs[k].tier, "tier">>
    ELSE IF ~HasFiniteValue(c, k) THEN <<"Null value">>
    ELSE IF ~HasFiniteRange(k) THEN <<"Invalid/Missing range">>
    ELSE << >>

C4_FirstFailingGateIsReported ==
    Done =>
        \A r \in Returned : \A k \in DOMAIN r.breakdown :
            /\ r.breakdown[k].error = ExpectedReason(InputCompany(r), k)
            /\ r.breakdown[k].isIncluded <=> r.breakdown[k].error = << >>

\* a null value together with an unusable range is reported as a null value
C4_Witness ==
    /\ Done
    /\ \E r \in Returned : \E k \in DOMAIN r.breakdown :
          /\ HasConfig(k)
          /\ Grants(currentUserTier, metricConfigs[k].tier)
          /\ ~HasFiniteValue(InputCompany(r), k)
          /\ ~HasFiniteRange(k)
          /\ r.breakdown[k].error = <<"Null value">>

(***************************************************************************)
(* C5: every normalizedValue that is present lies in [0, 1], whatever the  *)
(* finite raw value, the polarity and the range (zero-width and inverted   *)
(* ones included), and it is present only on included components.          *)
(***************************************************************************)
C5_NormalizedValueInUnitInterval ==
    Done =>
        \A r \in Returned : \A k \in DOMAIN r.breakdown :
            LET c == r.breakdown[k]
            IN  c.normalizedValue # << >> =>
                    /\ c.isIncluded
                    /\ c.normalizedValue[1].d > 0
                    /\ 0 <= c.normalizedValue[1].n
                    /\ c.normalizedValue[1].n <= c.normalizedValue[1].d

\* a raw value above the maximum of a range of positive width is included
C5_Witness ==
    /\ Done
    /\ \E r \in Returned : \E k \in Included(r) :
          /\ RangeMax(k) > RangeMin(k)
          /\ InputValue(InputCompany(r), k) > RangeMax(k)

(***************************************************************************)
(* C6: before polarity, the normalized value of an included metric is      *)
(* clamp((value - min) / (max - min), 0, 1) when max - min > epsilon; for  *)
(* a zero-width range [m, m] it is 0.5 when value >= m and 0 when          *)
(* value < m, and the metric still takes part in the weighted average: a   *)
(* single metric with higherIsBetter, range [10, 10] and value 15 scores   *)
(* 500.                                                                    *)
(***************************************************************************)
FracIs(q, n, d) == q.n * d = n * q.d

\* the normalized value of an included component with the polarity undone
BeforePolarity(r, k) ==
    LET nv == r.breakdown[k].normalizedValue[1]
    IN  IF metricConfigs[k].higherIsBetter THEN nv
        ELSE [n |-> nv.d - nv.n, d |-> nv.d]

C6_NormalizationOfIncludedMetric ==
    Done =>
        \A r \in Returned :
            /\ \A k \in Included(r) :
                  LET v == InputValue(InputCompany(r), k)
                      lo == RangeMin(k)
                      hi == RangeMax(k)
                      pre == BeforePolarity(r, k)
                  IN  /\ hi - lo > 0 =>
                            /\ v <= lo => FracIs(pre, 0, 1)
                            /\ v >= hi => FracIs(pre, 1, 1)
                            /\ (lo < v /\ v < hi) => FracIs(pre, v - lo, hi - lo)
                      /\ hi = lo =>
                            /\ v >= lo => FracIs(pre, 1, 2)
                            /\ v < lo => FracIs(pre, 0, 1)
                      /\ (hi = lo /\ v >= lo /\ metricConfigs[k].higherIsBetter
                            /\ Included(r) = {k}) => r.score = Num(500)
            /\ \A k \in DOMAIN weights :
                  (weights[k] > 0 /\ PassesGates(InputCompany(r), k)
                        /\ RangeMin(k) = RangeMax(k)) => k \in Included(r)

\* the single metric of range [10, 10] and value 15, higher is better
C6_Witness ==
    /\ Done
    /\ \E r \in Returned : \E k \in Included(r) :
          /\ Included(r) = {k}
          /\ metricConfigs[k].higherIsBetter
          /\ RangeMin(k) = 10 /\ RangeMax(k) = 10
          /\ InputValue(InputCompany(r), k) = 15
          /\ r.score = Num(500)

(***************************************************************************)
(* C7: the normalizedValue computed with higherIsBetter = FALSE is 1 minus *)
(* the one computed with higherIsBetter = TRUE, for every finite value and *)
(* valid range; the inversion follows the clamping, so a value outside the *)
(* range inverts to exactly 0 or 1.                                        *)
(***************************************************************************)
FlipPolarity(configs) ==
    [k \in DOMAIN configs |-> [configs[k] EXCEPT !.higherIsBetter = ~@]]

\* the output for the same inputs with the polarity of every metric flipped
ReturnedFlipped ==
    LET out == calculateScores(companies, weights, fullRanges,
                               FlipPolarity(metricConfigs), currentUserTier)
    IN  {out[i] : i \in 1..Len(out)}

C7_PolarityInversion ==
    Done =>
        \A r \in Returned : \A k \in Included(r) :
            LET nv == r.breakdown[k].normalizedValue[1]
                v == InputValue(InputCompany(r), k)
            IN  /\ \A r2 \in ReturnedFlipped :
                      r2.companyId = r.companyId =>
                          /\ k \in Included(r2)
                          /\ nv.n * r2.breakdown[k].normalizedValue[1].d
                                + r2.breakdown[k].normalizedValue[1].n * nv.d
                                = nv.d * r2.breakdown[k].normalizedValue[1].d
                /\ (RangeMax(k) > RangeMin(k) /\ ~metricConfigs[k].higherIsBetter) =>
                      /\ v > RangeMax(k) => FracIs(nv, 0, 1)
                      /\ v < RangeMin(k) => FracIs(nv, 1, 1)
                /\ (RangeMax(k) > RangeMin(k) /\ metricConfigs[k].higherIsBetter) =>
                      /\ v > RangeMax(k) => FracIs(nv, 1, 1)
                      /\ v < RangeMin(k) => FracIs(nv, 0, 1)

\* a lower-is-better metric whose value lies above the range: exactly 0
C7_Witness ==
    /\ Done
    /\ \E r \in Returned : \E k \in Included(r) :
          /\ ~metricConfigs[k].higherIsBetter
          /\ RangeMax(k) > RangeMin(k)
          /\ InputValue(InputCompany(r), k) > RangeMax(k)
          /\ FracIs(r.breakdown[k].normalizedValue[1], 0, 1)

(***************************************************************************)
(* C8: every score of the output is null or an integer in 0 .. 1000, for   *)
(* any number of weighted metrics and any positive weights.                *)
(***************************************************************************)
C8_ScoreInRange ==
    Done =>
        \A r \in Returned :
            \/ r.score = Null
            \/ /\ r.score.t = "num"
               /\ r.score.v \in 0..ScoreScale

\* three included metrics whose weights are not all equal
C8_Witness ==
    /\ Done
    /\ \E r \in Returned :
          /\ Cardinality(Included(r)) = 3
          /\ \E k, k2 \in Included(r) : r.breakdown[k].weight # r.breakdown[k2].weight
          /\ r.score.t = "num"
          /\ r.score.v \in 1..(ScoreScale - 1)

(***************************************************************************)
(* C9: the returned list is non-increasing by score and every company of   *)
(* null score follows every company of numeric score, a score of 0         *)
(* included; when no metric has weight > 0 every score is null.            *)
(***************************************************************************)
C9_RankedWithNullLast ==
    Done =>
        /\ \A i, j \in 1..Len(results) :
              i < j =>
                  /\ results[i].score = Null => results[j].score = Null
                  /\ (results[i].score # Null /\ results[j].score # Null)
                        => results[i].score.v >= results[j].score.v
        /\ (\A k \in DOMAIN weights : weights[k] <= 0) =>
              \A r \in Returned : r.score = Null

\* a company of null score that led the input follows one of score 0, which
\* follows one of a higher score that came last in the input
C9_Witness ==
    /\ Done
    /\ \E i, j, l \in 1..Len(results) :
          /\ i < j /\ j < l
          /\ results[i].score # Null /\ results[i].score.v > 0
          /\ results[j].score = Num(0)
          /\ results[l].score = Null
          /\ results[l].companyId < results[j].companyId
          /\ results[j].companyId < results[i].companyId

(***************************************************************************)
(* C10 (as stated): the breakdown of every company has an entry for every  *)
(* key of the weight map whose weight is non-zero, negative weights        *)
(* included, and for no other key.                                         *)
(***************************************************************************)
C10_EntryForEveryNonZeroWeight ==
    Done =>
        \A r \in Returned :
            DOMAIN r.breakdown = {k \in DOMAIN weights : weights[k] # 0}

(***************************************************************************)
(* C10 (amended): the breakdown of every company has an entry for every    *)
(* key of the weight map whose weight is > 0, whether or not the metric    *)
(* was included, and for no other key.                                     *)
(***************************************************************************)
C10_EntryForEveryPositiveWeight ==
    Done =>
        \A r \in Returned :
            DOMAIN r.breakdown = {k \in DOMAIN weights : weights[k] > 0}

\* an excluded metric of positive weight has an entry, next to an included
\* one, and a metric of weight 0 has none
C10_Witness ==
    /\ Done
    /\ \E r \in Returned : \E k, k2, k3 \in DOMAIN weights :
          /\ k \in DOMAIN r.breakdown /\ ~r.breakdown[k].isIncluded
          /\ k2 \in Included(r)
          /\ weights[k3] = 0 /\ k3 \notin DOMAIN r.breakdown

(***************************************************************************)
(* C11: calculateScores returns exactly one CompanyScore per input         *)
(* company, whatever the anomalies of the data (unknown metric keys,       *)
(* denied tiers, missing or non-finite values and ranges): the output is   *)
(* as long as the input and the id and name of every input company appear  *)
(* exactly once.                                                           *)
(***************************************************************************)
C11_OneResultPerCompany ==
    Done =>
        /\ Len(results) = Len(companies)
        /\ \A i \in 1..Len(companies) :
              Cardinality({j \in 1..Len(results) :
                              /\ results[j].companyId = companies[i].company_id
                              /\ results[j].companyName = companies[i].company_name}) = 1

\* a company without a value is returned, with the reason, next to a scored one
C11_Witness ==
    /\ Done
    /\ Len(results) >= 2
    /\ \E r, r2 \in Returned :
          /\ r.score = Null
          /\ \E k \in DOMAIN r.breakdown : r.breakdown[k].error = <<"Null value">>
          /\ r2.score # Null

(***************************************************************************)
(* C12: a weight of exactly 0 is the same as no weight: for a weight map w *)
(* and a metric key m not in w, calculateScores with w extended by m -> 0  *)
(* returns the output of calculateScores with w (scores, breakdowns and    *)
(* order), whatever the definition, tier, value or range of m.             *)
(***************************************************************************)
WithWeight(w, m, x) == [k \in DOMAIN w \cup {m} |-> IF k = m THEN x ELSE w[k]]
WithoutKey(w, m) == [k \in DOMAIN w \ {m} |-> w[k]]

C12_ZeroWeightIsNoWeight ==
    Done =>
        /\ \A m \in Columns \ DOMAIN weights :
              calculateScores(companies, WithWeight(weights, m, 0), fullRanges,
                              metricConfigs, currentUserTier) = results
        /\ \A m \in DOMAIN weights :
              weights[m] = 0 =>
                  calculateScores(companies, WithoutKey(weights, m), fullRanges,
                                  metricConfigs, currentUserTier) = results

\* a metric of weight 0 that passes every gate, next to an included metric
C12_Witness ==
    /\ Done
    /\ \E r \in Returned : \E m, k \in DOMAIN weights :
          /\ weights[m] = 0
          /\ PassesGates(InputCompany(r), m)
          /\ k \in Included(r)
          /\ r.score # Null

(***************************************************************************)
(* C13: a metric whose required tier the viewer's tier does not reach has  *)
(* no influence: scores and order are those of the weight map without the  *)
(* metric, its component keeps rawValue null and no normalizedValue, and   *)
(* the whole output is the same for inputs that differ only in a company's *)
(* value for the metric or in the metric's range.                          *)
(***************************************************************************)
Denied(k) == HasConfig(k) /\ ~Grants(currentUserTier, metricConfigs[k].tier)

ScoresInOrder(out) == [i \in 1..Len(out) |-> <<out[i].companyId, out[i].score>>]

\* the companies with the value of company i at path p replaced by v
WithValue(i, p, v) ==
    [j \in 1..Len(companies) |->
        IF j = i
        THEN [companies[j] EXCEPT !.data =
                [q \in DOMAIN companies[j].data \cup {p} |->
                    IF q = p THEN v ELSE companies[j].data[q]]]
        ELSE companies[j]]

AnyRanges == {<<a, b>> : a \in RangeBounds, b \in RangeBounds}

C13_DeniedMetricHasNoInfluence ==
    Done =>
        \A k \in DOMAIN weights :
            (weights[k] > 0 /\ Denied(k)) =>
                /\ ScoresInOrder(calculateScores(companies, WithoutKey(weights, k),
                                    fullRanges, metricConfigs, currentUserTier))
                      = ScoresInOrder(results)
                /\ \A r \in Returned :
                      /\ r.breakdown[k].rawValue = Null
                      /\ r.breakdown[k].normalizedValue = << >>
                /\ \A i \in 1..Len(companies) : \A v \in RawValues :
                      calculateScores(WithValue(i, metricConfigs[k].nested_path, v),
                                      weights, fullRanges, metricConfigs,
                                      currentUserTier) = results
                /\ \A range \in AnyRanges :
                      calculateScores(companies, weights,
                                      WithWeight(fullRanges, k, range),
                                      metricConfigs, currentUserTier) = results
                /\ calculateScores(companies, weights, WithoutKey(fullRanges, k),
                                   metricConfigs, currentUserTier) = results

\* a weighted metric of a higher tier with a finite value and range, next
\* to an included metric
C13_Witness ==
    /\ Done
    /\ currentUserTier = "free"
    /\ \E r \in Returned : \E k, k2 \in DOMAIN weights :
          /\ weights[k] > 0
          /\ HasConfig(k) /\ metricConfigs[k].tier = "premium"
          /\ HasFiniteValue(InputCompany(r), k)
          /\ HasFiniteRange(k)
          /\ k2 \in Included(r)

(***************************************************************************)
(* C14: the score is scale-invariant in the weights: multiplying every     *)
(* weight by a constant k > 0 leaves every score, every normalizedValue    *)
(* and inclusion flag and the order of the output unchanged.               *)
(***************************************************************************)
ScaleFactors == {2, 3, 50}
Scaled(w, f) == [k \in DOMAIN w |-> f * w[k]]

Without(s, i) == [j \in 1..(Len(s) - 1) |-> IF j < i THEN s[j] ELSE s[j + 1]]

C15_ScoreIndependentOfOtherCompanies ==
    Done =>
        /\ \A r \in Returned :
              calculateScores(<<InputCompany(r)>>, weights, fullRanges,
                              metricConfigs, currentUserTier) = <<r>>
        /\ \A i \in 1..Len(companies) :
              LET out == calculateScores(Without(companies, i), weights, fullRanges,
                                         metricConfigs, currentUserTier)
              IN  {out[j] : j \in 1..Len(out)}
                    = {r \in Returned : r.companyId # companies[i].company_id}

\* the companies passed in do not span the supplied range: none sits at its
\* minimum, and one scores 500
C15_Witness ==
    /\ Done
    /\ Len(companies) >= 2
    /\ \A i \in 1..Len(companies) :
          /\ HasFiniteValue(companies[i], ColMarketCap)
          /\ InputValue(companies[i], ColMarketCap) > RangeMin(ColMarketCap)
    /\ \E r, r2 \in Returned : r.score = Num(500) /\ r2.score = Num(1000)

(***************************************************************************)
(* C16: a metric whose range is absent or has a non-finite bound is        *)
(* excluded with the range reason for every company that reaches that      *)
(* gate; a range of finite bounds with min > max counts as zero-width: the *)
(* metric is included and a finite value normalizes, before polarity, to   *)
(* 0.5 when value >= min and to 0 otherwise.                               *)
(***************************************************************************)
ReachesRangeGate(c, k) ==
    /\ HasConfig(k)
    /\ Grants(currentUserTier, metricConfigs[k].tier)
    /\ HasFiniteValue(c, k)

C16_RangeValidity ==
    Done =>
        \A r \in Returned : \A k \in DOMAIN r.breakdown :
            ReachesRangeGate(InputCompany(r), k) =>
                /\ ~HasFiniteRange(k) =>
                      /\ ~r.breakdown[k].isIncluded
                      /\ r.breakdown[k].error = <<"Invalid/Missing range">>
                /\ (HasFiniteRange(k) /\ RangeMin(k) > RangeMax(k)) =>
                      /\ r.breakdown[k].isIncluded
                      /\ InputValue(InputCompany(r), k) >= RangeMin(k)
                            => FracIs(BeforePolarity(r, k), 1, 2)
                      /\ InputValue(InputCompany(r), k) < RangeMin(k)
                            => FracIs(BeforePolarity(r, k), 0, 1)

\* an inverted range and a value between its bounds: included, at 0
C16_Witness ==
    /\ Done
    /\ \E r \in Returned : \E k \in Included(r) :
          /\ RangeMin(k) > RangeMax(k)
          /\ InputValue(InputCompany(r), k) < RangeMin(k)
          /\ InputValue(InputCompany(r), k) > RangeMax(k)
          /\ FracIs(BeforePolarity(r, k), 0, 1)

(***************************************************************************)
(* C19: the ranker compares numerically, descending, with null replaced by *)
(* -1, and companies of equal score (several null scores included) keep    *)
(* the relative order they had in the input list.                          *)
(***************************************************************************)
InputIndex(r) ==
    CHOOSE i \in 1..Len(companies) : companies[i].company_id = r.companyId
NullAsMinusOne(r) == IF r.score = Null THEN -1 ELSE r.score.v

C19_StableDescendingOrder ==
    Done =>
        \A i, j \in 1..Len(results) :
            i < j =>
                /\ NullAsMinusOne(results[i]) >= NullAsMinusOne(results[j])
                /\ results[i].score = results[j].score
                      => InputIndex(results[i]) < InputIndex(results[j])

\* two companies of equal numeric score in input order, ahead of a company
\* of null score that led the input
C19_Witness ==
    /\ Done
    /\ \E i, j, l \in 1..Len(results) :
          /\ i < j /\ j < l
          /\ results[i].score # Null
          /\ results[i].score = results[j].score
          /\ results[l].score = Null
          /\ InputIndex(results[l]) < InputIndex(results[i])
          /\ InputIndex(results[i]) < InputIndex(results[j])

AllFetchesSettled == issued > 0 /\ inFlight = {} /\ debounceTimer = << >>

\* C20: once every issued fetch has settled, displayData and totalCount are
\* those returned for the most recently issued request, whatever the order
\* in which the responses arrived.
C20_LatestRequestWins ==
    AllFetchesSettled =>
        /\ displayData = responses[issued].displayData
        /\ totalCount = responses[issued].totalCount


\* C24: loading is true in every state in which a company-data fetch has
\* been issued and has not yet settled, also when two fetches overlap.
C24_LoadingWhileFetchInFlight == inFlight # {} => loading

\* C25: once get_metrics_ranges has failed, error is non-null in every
\* later state; no company-data fetch clears it.
C25_RangeFailureStaysVisible == rangeRpc = "failed" => error # << >>


\* the call the debounce timer holds is the one for the current settings
PendingCallIsLatest ==
    debounceTimer # << >> =>
        debounceTimer = <<[settings |-> filterSettings, currency |-> currentCurrency]>>

\* a step that issues a call issues one call, the pending one, and it
\* carries the filter settings and the currency of that moment
IssuesThePendingCall ==
    issued' # issued =>
        /\ issued' = issued + 1
        /\ debounceTimer # << >>
        /\ debounceTimer' = << >>
        /\ inFlight \subseteq inFlight'
        /\ inFlight' \ inFlight =
                {[id |-> issued',
                  filters |-> filtersJson(filterSettings),
                  target_currency |-> currentCurrency]}

\* C26: each change of filterSettings or currency replaces the pending
\* debounced call, so a burst of changes results in exactly one
\* get_companies_paginated call, issued after the last change and carrying
\* the latest filter settings and currency.
C26_BurstIssuesOneLatestCall ==
    /\ [](PendingCallIsLatest /\ issued <= changes + 1)
    /\ [][IssuesThePendingCall]_vars

\* a burst of two changes after the mount was followed by a single call
C26_Witness ==
    /\ changes = 2
    /\ issued = 1
    /\ debounceTimer = << >>
    /\ filterSettings # DEFAULT_FILTER_SETTINGS
    /\ currentCurrency = "CAD"
    /\ \E req \in inFlight :
            /\ req.filters = filtersJson(filterSettings)
            /\ req.target_currency = "CAD"


\* C27: provided the timer fires and every issued call settles, with data
\* or with an error, loading always becomes false again; no failure path
\* leaves rangeLoading or dataLoading at true.
C27_LoadingEnds == loading ~> ~loading

\* loading is over after both the range fetch and a company fetch failed
C27_Witness ==
    /\ ~loading
    /\ rangeRpc = "failed"
    /\ inFlight = {}
    /\ changes > 0
    /\ \E id \in DOMAIN responses : responses[id].outcome = "error"


\* the requests that settle in the step
SettlingNow == DOMAIN responses' \ DOMAIN responses

\* C28: a company-data fetch that fails leaves displayData = [],
\* totalCount = 0, a non-null error and dataLoading = false, with
\* filterSettings, currency, tier and metricFullRanges unchanged; a response
\* with no data gives displayData = [] and totalCount = 0 and leaves error
\* as it was.
C28_FailedFetchState ==
    [][\A id \in SettlingNow :
        /\ responses'[id].outcome = "error" =>
                /\ displayData' = << >>
                /\ totalCount' = 0
                /\ error' # << >>
                /\ dataLoading' = FALSE
                /\ filterSettings' = filterSettings
                /\ currentCurrency' = currentCurrency
                /\ currentUserTier' = currentUserTier
                /\ metricFullRanges' = metricFullRanges
        /\ responses'[id].outcome = "no data" =>
                /\ displayData' = << >>
                /\ totalCount' = 0
                /\ error' = error]_vars

\* a fetch failed after an earlier one had put companies on display
C28_Witness ==
    /\ \E id \in DOMAIN responses :
            responses[id].outcome = "rows" /\ Len(responses[id].displayData) > 0
    /\ \E id \in DOMAIN responses : responses[id].outcome = "error"
    /\ displayData = << >>
    /\ totalCount = 0
    /\ error # << >>
    /\ dataLoading = FALSE
    /\ metricFullRanges = AggregateRanges
    /\ filterSettings # DEFAULT_FILTER_SETTINGS


\* the table has rendered and calculateScores has returned
BothRendered == Done /\ columnAccess # << >>

\* C29: for every viewer tier (free, medium, premium, unrecognized or
\* absent) and every required tier (free, medium, premium or unrecognized),
\* isColumnAccessible grants access to a column exactly when calculateScores
\* marks the metric with that required tier as isAccessible.
C29_TierChecksAgree ==
    BothRendered =>
        \A r \in Returned : \A k \in DOMAIN r.breakdown :
            columnAccess[k] = r.breakdown[k].isAccessible


\* the score of the company of result r once its raw value for metric k is v
ScoreWithValue(r, k, v) ==
    LET out == calculateScores(WithValue(InputIndex(r), metricConfigs[k].nested_path, Num(v)),
                               weights, fullRanges, metricConfigs, currentUserTier)
    IN  (CHOOSE x \in {out[i] : i \in 1..Len(out)} : x.companyId = r.companyId).score

\* raising the raw value of an included metric moves the score the way of
\* the metric's polarity, or not at all
MonotoneInValues(r) ==
    \A k \in Included(r) : \A v \in NumValues :
        v > InputValue(InputCompany(r), k) =>
            /\ ScoreWithValue(r, k, v) # Null
            /\ metricConfigs[k].higherIsBetter => ScoreWithValue(r, k, v).v >= r.score.v
            /\ ~metricConfigs[k].higherIsBetter => ScoreWithValue(r, k, v).v <= r.score.v

BestEnd(k) == IF metricConfigs[k].higherIsBetter THEN RangeMax(k) ELSE RangeMin(k)
WorstEnd(k) == IF metricConfigs[k].higherIsBetter THEN RangeMin(k) ELSE RangeMax(k)

AllAtBestEnd(r) ==
    /\ Included(r) # {}
    /\ \A k \in Included(r) : InputValue(InputCompany(r), k) = BestEnd(k)
AllAtWorstEnd(r) ==
    /\ Included(r) # {}
    /\ \A k \in Included(r) : InputValue(InputCompany(r), k) = WorstEnd(k)

\* every included metric has a range wider than the epsilon of line 94
\* (the bounds of the model are integers)
RangesHaveWidth(r) == \A k \in Included(r) : RangeMax(k) - RangeMin(k) > 0

\* C30 as stated: raising a raw value of an included metric never moves the
\* score against the metric's polarity, and a company whose included
\* metrics all sit at the best end of their ranges scores 1000, at the
\* worst end 0.
C30_MonotoneAndExtremes ==
    Done =>
        \A r \in Returned :
            /\ MonotoneInValues(r)
            /\ AllAtBestEnd(r) => r.score = Num(ScoreScale)
            /\ AllAtWorstEnd(r) => r.score = Num(0)

\* C30 amended: the same, with the scores 1000 and 0 at the ends claimed
\* only when every included metric has a range of positive width.
C30_MonotoneAndExtremesOfWideRanges ==
    Done =>
        \A r \in Returned :
            /\ MonotoneInValues(r)
            /\ (AllAtBestEnd(r) /\ RangesHaveWidth(r)) => r.score = Num(ScoreScale)
            /\ (AllAtWorstEnd(r) /\ RangesHaveWidth(r)) => r.score = Num(0)

\* a company scored 0 on two metrics of opposite polarity, both with wide
\* ranges and a value at the worst end that can still be raised
C30_Witness ==
    /\ Done
    /\ \E r \in Returned :
            /\ Included(r) = {ColMarketCap, ColDebt}
            /\ metricConfigs[ColMarketCap].higherIsBetter
            /\ ~metricConfigs[ColDebt].higherIsBetter
            /\ AllAtWorstEnd(r)
            /\ RangesHaveWidth(r)
            /\ r.score = Num(0)
            /\ \A k \in Included(r) :
                    \E v \in NumValues : v > InputValue(InputCompany(r), k)


\* the metrics of the catalog that the viewer's tier does not reach
BeyondTier == {k \in Columns : ~Grants(currentUserTier, Catalog[k].tier)}

\* the weights the page holds, without those of the metrics beyond the tier
WeightsWithinTier == [k \in DOMAIN weights \ BeyondTier |-> weights[k]]

\* the score of company id in the list out
ScoreOfIn(out, id) == (CHOOSE x \in {out[j] : j \in 1..Len(out)} : x.companyId = id).score

\* C21: after any sequence of weight changes and viewer-tier changes, no
\* metric whose required tier exceeds the current viewer tier contributes
\* to a displayed score: its weight stops counting when the tier is lowered
\* and counts again when the tier is raised.
C21_MetricBeyondTierNeverCounts ==
    \A r \in Returned :
        /\ Included(r) \cap BeyondTier = {}
        /\ \A k \in DOMAIN r.breakdown \cap BeyondTier :
                r.breakdown[k].weightedScore = FracInt(0)
        /\ \A k \in DOMAIN weights :
                (weights[k] > 0 /\ PassesGates(InputCompany(r), k)) => k \in Included(r)
        /\ r.score = ScoreOfIn(calculateScores(displayData, WeightsWithinTier,
                                    metricFullRanges, metricConfigs, currentUserTier),
                                r.companyId)

\* a weight given to the medium-tier metric while it was accessible is
\* still held after the tier went down to free, next to a counting weight
C21_Witness ==
    /\ currentUserTier = "free"
    /\ ColDebt \in DOMAIN weights /\ weights[ColDebt] > 0
    /\ ColMarketCap \in DOMAIN weights /\ weights[ColMarketCap] > 0
    /\ Len(results) = Len(displayData)
    /\ \A r \in Returned :
            /\ Included(r) = {ColMarketCap}
            /\ r.breakdown[ColDebt].error = ErrTier("medium")

\* C22: the ranked list contains entries only when at least one metric has
\* a weight > 0; with no positive weight the list is empty and the
\* placeholder is shown.
C22_ListOnlyWithPositiveWeight ==
    (\A k \in DOMAIN weights : weights[k] <= 0) => results = << >>

\* C23: a weight set through the sliders of the page never produces a
\* 'Metric config not found' component.
C23_SliderMetricsHaveConfig ==
    \A r \in Returned : \A k \in DOMAIN r.breakdown :
        r.breakdown[k].error # ErrNotFound

====
